---- MODULE Spec2Model ----
(***************************************************************************)
(* LeetCode practice assistant (src/leetcode_assistant.py): the catalog of *)
(* problems, the session log, the review scheduler, the selector and the   *)
(* stats overview, as a state machine driven by the main menu.             *)
(*                                                                         *)
(* Representation.                                                         *)
(*  - A datetime is an integer number of clock ticks (TicksPerSecond ticks *)
(*    per second; Python has 1,000,000).  A timestamp string in            *)
(*    DATE_FORMAT has second precision and is represented by the number of *)
(*    whole seconds, so strftime drops the sub-second part.                *)
(*  - Python's None is the empty tuple and a present optional value v is   *)
(*    <<v>>.                                                               *)
(*  - Free text that the code inspects character by character (difficulty  *)
(*    input, topics) is a sequence of one-character strings.               *)
(*  - minutes (a float rounded to one decimal) is held in tenths of a      *)
(*    minute.                                                              *)
(*  - problems is data["problems"], sessions is data["sessions"], and pc   *)
(*    is where the control flow stands, with the locals of that frame.     *)
(***************************************************************************)
EXTENDS Integers, Sequences, FiniteSets, TLC

VARIABLES problems, sessions, pc

vars == <<problems, sessions, pc>>

---------------------------------------------------------------------------
(* Bounds of the model *)

MaxSessions == 2

TicksPerSecond == 2

---------------------------------------------------------------------------
(* Time *)

Second == TicksPerSecond

Minute == 60 * Second

Hour == 60 * Minute

Day == 24 * Hour

timedelta(days) == days * Day

None == << >>

Some(v) == <<v>>

Get(o) == o[1]

\* datetime.strftime(DATE_FORMAT): second precision, sub-second part dropped
strftime(dt) == dt \div TicksPerSecond

\* datetime.strptime(s, DATE_FORMAT)
strptime(s) == s * TicksPerSecond

Abs(n) == IF n < 0 THEN -n ELSE n

\* round(x, 1) for x = ticks / Minute, in tenths of a minute: round half to
\* even (a float that is not exactly a tie rounds to the nearer side; the
\* durations used here are no ties)
round1(ticks) ==
    LET den == 6 * TicksPerSecond
        a   == Abs(ticks)
        q   == a \div den
        r   == a % den
        m   == IF 2 * r > den THEN q + 1
               ELSE IF 2 * r < den THEN q
               ELSE IF q % 2 = 0 THEN q ELSE q + 1
    IN  IF ticks < 0 THEN -m ELSE m

---------------------------------------------------------------------------
(* Text *)

CasePairs ==
    { <<"A", "a">>, <<"D", "d">>, <<"E", "e">>, <<"H", "h">>, <<"M", "m">>,
      <<"P", "p">>, <<"R", "r">>, <<"S", "s">>, <<"Y", "y">> }

\* str.lower() on one character
LowerChar(c) ==
    IF \E p \in CasePairs : p[1] = c
    THEN (CHOOSE p \in CasePairs : p[1] = c)[2]
    ELSE c

\* str.lower()
lower(s) == [i \in 1..Len(s) |-> LowerChar(s[i])]

RECURSIVE lstrip(_)
lstrip(s) == IF s # << >> /\ Head(s) = " " THEN lstrip(Tail(s)) ELSE s

RECURSIVE rstrip(_)
rstrip(s) ==
    IF s # << >> /\ s[Len(s)] = " " THEN rstrip(SubSeq(s, 1, Len(s) - 1)) ELSE s

\* str.strip()
strip(s) == rstrip(lstrip(s))

\* str.split(","): the pieces between the commas, empty pieces included
RECURSIVE split(_)
split(s) ==
    IF \E i \in 1..Len(s) : s[i] = ","
    THEN LET i == CHOOSE j \in 1..Len(s) : s[j] = "," /\ \A k \in 1..(j - 1) : s[k] # ","
         IN  <<SubSeq(s, 1, i - 1)>> \o split(SubSeq(s, i + 1, Len(s)))
    ELSE <<s>>

RECURSIVE SelectNonEmpty(_)
SelectNonEmpty(ps) ==
    IF ps = << >> THEN << >>
    ELSE IF strip(Head(ps)) # << >>
         THEN <<strip(Head(ps))>> \o SelectNonEmpty(Tail(ps))
         ELSE SelectNonEmpty(Tail(ps))

\* [t.strip() for t in topics_input.split(",") if t.strip()]
parse_topics(topics_input) == SelectNonEmpty(split(topics_input))

normalize_difficulty(diff) ==
    LET d == strip(lower(diff))
    IN  IF d \in { <<"e">>, <<"e", "a", "s", "y">> } THEN Some("easy")
        ELSE IF d \in { <<"m">>, <<"m", "e", "d", "i", "u", "m">>, <<"m", "e", "d">> }
             THEN Some("medium")
        ELSE IF d \in { <<"h">>, <<"h", "a", "r", "d">> } THEN Some("hard")
        ELSE None

---------------------------------------------------------------------------
(* Values typed at the prompts *)

Slugs == { "two-sum", "lru-cache" }

Titles == { "Two Sum" }

UrlInputs == { "" }

in_Easy == <<"E", "a", "s", "y">>

in_m == <<" ", "m", " ">>

in_HARD == <<"H", "A", "R", "D">>

in_bad == <<"h", "a", "r", "d", "e", "r">>

DiffInputs == { in_Easy, in_m, in_HARD, in_bad }

in_empty == << >>

in_array == <<"a", "r", "r", "a", "y">>

in_Array == <<"A", "r", "r", "a", "y">>

in_ARRAY == <<"A", "R", "R", "A", "Y">>

in_arrays == <<"a", "r", "r", "a", "y", "s">>

in_Array_dp == <<"A", "r", "r", "a", "y", ",", " ", "d", "p", " ", ",", " ">>

TopicInputs == { in_Array_dp }

DiffFilterInputs == { in_empty, in_m }

TopicFilterInputs == { in_empty, in_Array }

Statuses == { "solved", "partial", "unsolved" }

Notes == { "" }

\* Wall-clock reading when the practice option is taken: one tick past
\* 10:00:00, one day later for every session already logged
T0 == 10 * Hour + 1

StartTimes(logged) == { T0 + logged * Day }

\* How a session's clock readings lie: dur is end_time - start_time (a
\* negative one is a wall clock set back meanwhile) and lag is the time from
\* end_time to the reading in schedule_next_review, spent typing the result
\* and the notes
Timings ==
    { [ dur |-> 20 * Minute, lag |-> Minute ],
      [ dur |-> -Minute, lag |-> 0 ] }

---------------------------------------------------------------------------
(* The program *)

default_url(slug) == <<"https://leetcode.com/problems/", slug, "/">>

NewProblem(title, slug, url, difficulty, topics) ==
    [ title          |-> title,
      slug           |-> slug,
      url            |-> url,
      difficulty     |-> difficulty,
      topics         |-> topics,
      attempts       |-> 0,
      last_status    |-> None,
      last_practiced |-> None,
      next_review    |-> None ]

\* A variant that keeps the attempts of the record it overwrites
upsert_keeping_attempts(data_problems, slug, record) ==
    [ pid \in DOMAIN data_problems \cup {slug} |->
        IF pid = slug
        THEN IF slug \in DOMAIN data_problems
             THEN [ record EXCEPT !.attempts = data_problems[slug].attempts ]
             ELSE record
        ELSE data_problems[pid] ]

\* data["problems"][problem_id] = {...}
upsert(data_problems, slug, record) ==
    [ pid \in DOMAIN data_problems \cup {slug} |->
        IF pid = slug THEN record ELSE data_problems[pid] ]

\* A variant whose due test drops a review falling due at this very instant
filter_problems_strictly_past(data_problems, diff_filter, topic_filter, only_due, now) ==
    { pid \in DOMAIN data_problems :
        LET p == data_problems[pid]
        IN  /\ ~(diff_filter # None /\ p.difficulty # Get(diff_filter))
            /\ ~(/\ topic_filter # None
                 /\ Get(topic_filter) # << >>
                 /\ ~\E i \in 1..Len(p.topics) :
                        lower(p.topics[i]) = Get(topic_filter))
            /\ ~(/\ only_due
                 /\ p.next_review # None
                 /\ strptime(Get(p.next_review)) >= now) }

\* The keys of data["problems"] that pass the filters (the code lists them in
\* dictionary order; random.choice draws from that list)
filter_problems(data_problems, diff_filter, topic_filter, only_due, now) ==
    { pid \in DOMAIN data_problems :
        LET p == data_problems[pid]
        IN  /\ ~(diff_filter # None /\ p.difficulty # Get(diff_filter))
            /\ ~(/\ topic_filter # None
                 /\ Get(topic_filter) # << >>
                 /\ ~\E i \in 1..Len(p.topics) :
                        lower(p.topics[i]) = Get(topic_filter))
            /\ ~(/\ only_due
                 /\ p.next_review # None
                 /\ strptime(Get(p.next_review)) > now) }

\* The filters choose_problem builds from the answers to its prompts
chosen_diff_filter(use_filters, diff_input) ==
    IF use_filters /\ strip(diff_input) # << >>
    THEN normalize_difficulty(strip(diff_input))
    ELSE None

\* A variant that keeps the filter's letter case as typed
chosen_topic_filter_as_typed(use_filters, topic_input) ==
    IF use_filters /\ strip(topic_input) # << >>
    THEN Some(strip(topic_input))
    ELSE None

chosen_topic_filter(use_filters, topic_input) ==
    IF use_filters /\ lower(strip(topic_input)) # << >>
    THEN Some(lower(strip(topic_input)))
    ELSE None

chosen_only_due(use_filters, due_input) == use_filters /\ due_input

choose_candidates(data_problems, use_filters, diff_input, topic_input, due_input, now) ==
    filter_problems(data_problems,
                    chosen_diff_filter(use_filters, diff_input),
                    chosen_topic_filter(use_filters, topic_input),
                    chosen_only_due(use_filters, due_input),
                    now)

\* A variant with the gaps of medium and hard exchanged
review_delta_swapped(status, difficulty) ==
    IF status = "solved"
    THEN IF difficulty = "easy" THEN timedelta(3)
         ELSE IF difficulty = "medium" THEN timedelta(1)
         ELSE timedelta(2)
    ELSE timedelta(1)

review_delta(status, difficulty) ==
    IF status = "solved"
    THEN IF difficulty = "easy" THEN timedelta(3)
         ELSE IF difficulty = "medium" THEN timedelta(2)
         ELSE timedelta(1)
    ELSE timedelta(1)

\* now is the reading of datetime.now() on entry
schedule_next_review(status, difficulty, now) ==
    strftime(now + review_delta(status, difficulty))

\* A variant that leaves last_practiced as it was
practised_undated(problem, status, end_time, now) ==
    [ problem EXCEPT
        !.attempts    = @ + 1,
        !.last_status = Some(status),
        !.next_review = Some(schedule_next_review(status, problem.difficulty, now)) ]

\* The problem record after a session is logged; now is the clock reading
\* inside schedule_next_review
practised(problem, status, end_time, now) ==
    [ problem EXCEPT
        !.attempts       = @ + 1,
        !.last_status    = Some(status),
        !.last_practiced = Some(strftime(end_time)),
        !.next_review    = Some(schedule_next_review(status, problem.difficulty, now)) ]

\* A variant that updates every record of the catalog
log_practice_all(data_problems, pid, status, end_time, now) ==
    [ p \in DOMAIN data_problems |-> practised(data_problems[p], status, end_time, now) ]

\* problem = data["problems"][pid], then the four assignments to it
log_practice(data_problems, pid, status, end_time, now) ==
    [ data_problems EXCEPT ![pid] = practised(@, status, end_time, now) ]

session_record(pid, start_time, end_time, status, notes) ==
    [ problem_id |-> pid,
      start      |-> strftime(start_time),
      end        |-> strftime(end_time),
      minutes    |-> round1(end_time - start_time),
      status     |-> status,
      notes      |-> notes ]

\* A variant that puts the new record in front
log_prepend(log, record) == <<record>> \o log

\* data["sessions"].append(session_record)
log_append(log, record) == Append(log, record)

stats_by_difficulty(data_problems) ==
    [ d \in { "easy", "medium", "hard" } |->
        Cardinality({ pid \in DOMAIN data_problems : data_problems[pid].difficulty = d }) ]

stats_solved_count(data_problems) ==
    Cardinality({ pid \in DOMAIN data_problems :
                    data_problems[pid].last_status = Some("solved") })

\* sessions[-5:]
last5(log) == SubSeq(log, IF Len(log) > 5 THEN Len(log) - 4 ELSE 1, Len(log))

stats_overview(data_problems, log) ==
    [ total_problems |-> Cardinality(DOMAIN data_problems),
      total_sessions |-> Len(log),
      by_difficulty  |-> stats_by_difficulty(data_problems),
      solved_count   |-> stats_solved_count(data_problems),
      recent         |-> last5(log) ]

---------------------------------------------------------------------------
(* The menu's operations *)

AtMenu == pc.at = "menu"

AddProblem ==
    /\ AtMenu
    /\ \E title \in Titles, slug \in Slugs, url_input \in UrlInputs,
          diff_input \in DiffInputs, topics_input \in TopicInputs :
         LET difficulty == normalize_difficulty(diff_input)
             url        == IF url_input = "" THEN default_url(slug) ELSE <<url_input>>
             topics     == parse_topics(strip(topics_input))
         IN  /\ difficulty # None
             /\ problems' = upsert(problems, slug,
                                   NewProblem(title, slug, url, Get(difficulty), topics))
    /\ UNCHANGED <<sessions, pc>>

\* Prints the catalog
ListProblems ==
    /\ AtMenu
    /\ UNCHANGED <<problems, sessions, pc>>

\* start_practice_session up to its first prompt: choose_problem found a
\* problem and start_time is read
BeginSession ==
    /\ AtMenu
    /\ Len(sessions) < MaxSessions
    /\ \E use_filters \in BOOLEAN, diff_input \in DiffFilterInputs,
          topic_input \in TopicFilterInputs, due_input \in BOOLEAN,
          now_f \in StartTimes(Len(sessions)) :
         /\ use_filters \/ (diff_input = in_empty /\ topic_input = in_empty /\ ~due_input)
         /\ \E pid \in choose_candidates(problems, use_filters, diff_input,
                                         topic_input, due_input, now_f) :
              pc' = [ at |-> "solving", pid |-> pid, start_time |-> now_f ]
    /\ UNCHANGED <<problems, sessions>>

\* start_practice_session when choose_problem returns None
NoSession ==
    /\ AtMenu
    /\ \/ DOMAIN problems = {}
       \/ \E use_filters \in BOOLEAN, diff_input \in DiffFilterInputs,
             topic_input \in TopicFilterInputs, due_input \in BOOLEAN,
             now_f \in StartTimes(Len(sessions)) :
            /\ use_filters \/ (diff_input = in_empty /\ topic_input = in_empty /\ ~due_input)
            /\ choose_candidates(problems, use_filters, diff_input,
                                 topic_input, due_input, now_f) = {}
    /\ UNCHANGED <<problems, sessions, pc>>

\* start_practice_session from the Enter that ends the solving to its return
LogSession ==
    /\ pc.at = "solving"
    /\ \E tm \in Timings, status \in Statuses, notes \in Notes :
         LET end_time == pc.start_time + tm.dur
             now      == end_time + tm.lag
         IN  /\ problems' = log_practice(problems, pc.pid, status, end_time, now)
             /\ sessions' = log_append(sessions,
                                       session_record(pc.pid, pc.start_time, end_time,
                                                      status, notes))
    /\ pc' = [ at |-> "menu" ]

\* Prints stats_overview(problems, sessions)
StatsOverview ==
    /\ AtMenu
    /\ UNCHANGED <<problems, sessions, pc>>

\* load_data() when no data file exists
Init ==
    /\ problems = [ pid \in {} |-> None ]
    /\ sessions = << >>
    /\ pc = [ at |-> "menu" ]

Next ==
    \/ AddProblem
    \/ ListProblems
    \/ BeginSession
    \/ NoSession
    \/ LogSession
    \/ StatsOverview

Spec == Init /\ [][Next]_vars

---------------------------------------------------------------------------
(* The scheduler on its own: schedule_next_review applied to every outcome *)
(* and difficulty at a range of clock readings                             *)

Difficulties == { "easy", "medium", "hard" }

SchedulerNows ==
    { d * Day + h * Hour + t : d \in { 0, 1 }, h \in { 0, 23 }, t \in 0..TicksPerSecond }

SchedulerInit ==
    /\ problems = [ pid \in {} |-> None ]
    /\ sessions = << >>
    /\ pc \in { [ at |-> "schedule", status |-> s, difficulty |-> d, now |-> n ] :
                s \in Statuses, d \in Difficulties, n \in SchedulerNows }

ScheduleNextReview ==
    /\ pc.at = "schedule"
    /\ pc' = [ at         |-> "scheduled",
               status     |-> pc.status,
               difficulty |-> pc.difficulty,
               now        |-> pc.now,
               result     |-> schedule_next_review(pc.status, pc.difficulty, pc.now) ]
    /\ UNCHANGED <<problems, sessions>>

SpecScheduler == SchedulerInit /\ [][ScheduleNextReview]_vars

---------------------------------------------------------------------------
(* The selector on its own: choose_problem applied to the catalogs that a  *)
(* data file left by earlier runs can hold                                 *)

SlugOrder == <<"two-sum", "lru-cache">>

SelectorTopicInputs == { in_empty, in_array, in_ARRAY, in_arrays }

SelectorDifficulties == { "easy", "medium" }

\* The one earlier session of a problem: it ended at T0 and was logged at once
SelectorPractice == { None, Some("solved"), Some("partial") }

SelectorHistories ==
    { None } \cup
    { Some([ difficulty |-> d, topics_input |-> t, practice |-> p ]) :
        d \in SelectorDifficulties, t \in SelectorTopicInputs, p \in SelectorPractice }

loaded_problem(slug, r) ==
    LET fresh == NewProblem("Two Sum", slug, default_url(slug), r.difficulty,
                            parse_topics(strip(r.topics_input)))
    IN  IF r.practice = None THEN fresh
        ELSE practised(fresh, Get(r.practice), T0, T0)

loaded_problems(h) ==
    [ pid \in { s \in Slugs : h[s] # None } |-> loaded_problem(pid, Get(h[pid])) ]

RECURSIVE loaded_sessions(_, _)
loaded_sessions(h, order) ==
    IF order = << >> THEN << >>
    ELSE LET slug == Head(order)
             rest == loaded_sessions(h, Tail(order))
         IN  IF h[slug] # None /\ Get(h[slug]).practice # None
             THEN <<session_record(slug, T0 - 20 * Minute, T0,
                                   Get(Get(h[slug]).practice), "")>> \o rest
             ELSE rest

\* load_data() when the data file exists
SelectorInit ==
    \E h \in [ Slugs -> SelectorHistories ] :
        /\ problems = loaded_problems(h)
        /\ sessions = loaded_sessions(h, SlugOrder)
        /\ pc = [ at |-> "menu" ]

SelectorDiffInputs == { in_empty, in_m, in_bad }

SelectorTopicFilters == { in_empty, in_Array, <<" ", "a", "r", "r", "a", "y", "s">> }

\* Clock readings in filter_problems: one tick before, at, and one tick
\* after the second T0 + 1 day at which a partial session's review falls due
SelectorNows ==
    { strptime(strftime(T0)) + Day - 1, strptime(strftime(T0)) + Day,
      strptime(strftime(T0)) + Day + 1 }

ChooseProblem ==
    /\ AtMenu
    /\ \E use_filters \in BOOLEAN, diff_input \in SelectorDiffInputs,
          topic_input \in SelectorTopicFilters, due_input \in BOOLEAN,
          now_f \in SelectorNows :
         /\ use_filters \/ (diff_input = in_empty /\ topic_input = in_empty /\ ~due_input)
         /\ LET candidates == IF DOMAIN problems = {} THEN {}
                              ELSE choose_candidates(problems, use_filters, diff_input,
                                                     topic_input, due_input, now_f)
            IN  \E pid \in IF candidates = {} THEN { None }
                           ELSE { Some(c) : c \in candidates } :
                  pc' = [ at          |-> "chosen",
                          use_filters |-> use_filters,
                          diff_input  |-> diff_input,
                          topic_input |-> topic_input,
                          due_input   |-> due_input,
                          now         |-> now_f,
                          candidates  |-> candidates,
                          pid         |-> pid ]
    /\ UNCHANGED <<problems, sessions>>

SpecSelector == SelectorInit /\ [][ChooseProblem]_vars

---------------------------------------------------------------------------
(* Properties *)

SecondsPerDay == 24 * 60 * 60

\* The scheduling table, in days
TableDays(outcome, difficulty) ==
    IF outcome = "solved"
    THEN CASE difficulty = "easy" -> 3
           [] difficulty = "medium" -> 2
           [] difficulty = "hard" -> 1
    ELSE 1

SameLetter(a, b) == a = b \/ <<a, b>> \in CasePairs \/ <<b, a>> \in CasePairs

EqualIgnoringCase(s, t) ==
    Len(s) = Len(t) /\ \A i \in 1..Len(s) : SameLetter(s[i], t[i])

LoggedFor(pid) == { i \in 1..Len(sessions) : sessions[i].problem_id = pid }

SessionLogged == pc.at = "solving" /\ pc'.at = "menu"

\* C1: for every outcome and difficulty, the timestamp schedule_next_review
\* returns lies exactly the table's number of days after the timestamp of the
\* clock reading it was computed from: 3 days for solved/easy, 2 for
\* solved/medium, 1 for solved/hard and 1 for partial or unsolved.
C1_TableExact ==
    pc.at = "scheduled" =>
        pc.result - strftime(pc.now) = TableDays(pc.status, pc.difficulty) * SecondsPerDay

C1_Witness ==
    /\ pc.at = "scheduled"
    /\ pc.status = "solved"
    /\ pc.difficulty = "medium"
    /\ pc.now % TicksPerSecond # 0
    /\ pc.result - strftime(pc.now) = 2 * SecondsPerDay

\* C2: every practised problem has next_review - last_practiced equal to the
\* table's days for its last status and its difficulty, whatever time passed
\* between the end of the session and the entry of status and notes.
C2_NextReviewFromEnd ==
    \A pid \in DOMAIN problems :
        LET p == problems[pid]
        IN  p.last_practiced # None =>
                Get(p.next_review) - Get(p.last_practiced)
                    = TableDays(Get(p.last_status), p.difficulty) * SecondsPerDay

\* C3: on every problem of the catalog, attempts = 0 iff last_status is null
\* iff last_practiced is null, and next_review is set iff last_practiced is.
C3_PracticeFieldsAgree ==
    \A pid \in DOMAIN problems :
        LET p == problems[pid]
        IN  /\ (p.attempts = 0) <=> (p.last_status = None)
            /\ (p.last_status = None) <=> (p.last_practiced = None)
            /\ (p.next_review # None) <=> (p.last_practiced # None)

C3_Witness ==
    /\ pc.at = "menu"
    /\ \E a, b \in DOMAIN problems :
         /\ problems[a].attempts = 2
         /\ problems[a].next_review # None
         /\ problems[b].attempts = 0
         /\ problems[b].next_review = None
         /\ LoggedFor(b) = {}

\* C4: the stats value solved_at_least_once is the number of catalog problems
\* with at least one logged session of status solved.  Stated for catalogs in
\* which no record was overwritten after a session of its problem, where the
\* log of a problem is the history of its record.
C4_SolvedAtLeastOnce ==
    (\A pid \in DOMAIN problems : problems[pid].attempts = Cardinality(LoggedFor(pid))) =>
        stats_overview(problems, sessions).solved_count
            = Cardinality({ pid \in DOMAIN problems :
                              \E i \in LoggedFor(pid) : sessions[i].status = "solved" })

\* C5: with only the due filter on, choose_problem's candidates are exactly
\* the problems whose next_review is null or not after the clock reading.
C5_OnlyDue ==
    (/\ pc.at = "chosen"
     /\ pc.use_filters
     /\ pc.due_input
     /\ strip(pc.diff_input) = << >>
     /\ strip(pc.topic_input) = << >>) =>
        pc.candidates =
            { pid \in DOMAIN problems :
                \/ problems[pid].next_review = None
                \/ Get(problems[pid].next_review) * TicksPerSecond <= pc.now }

C5_Witness ==
    /\ pc.at = "chosen"
    /\ pc.use_filters
    /\ pc.due_input
    /\ strip(pc.diff_input) = << >>
    /\ strip(pc.topic_input) = << >>
    /\ \E a, b \in DOMAIN problems :
         /\ problems[a].next_review # None
         /\ Get(problems[a].next_review) * TicksPerSecond = pc.now
         /\ a \in pc.candidates
         /\ problems[b].next_review # None
         /\ Get(problems[b].next_review) * TicksPerSecond > pc.now
         /\ b \notin pc.candidates

\* C6: with only a topic filter, choose_problem's candidates are exactly the
\* problems one of whose topics equals the typed filter ignoring letter case.
C6_TopicIgnoringCase ==
    (/\ pc.at = "chosen"
     /\ pc.use_filters
     /\ ~pc.due_input
     /\ strip(pc.diff_input) = << >>
     /\ strip(pc.topic_input) # << >>) =>
        pc.candidates =
            { pid \in DOMAIN problems :
                \E i \in 1..Len(problems[pid].topics) :
                    EqualIgnoringCase(problems[pid].topics[i], strip(pc.topic_input)) }

C6_Witness ==
    /\ pc.at = "chosen"
    /\ pc.use_filters
    /\ ~pc.due_input
    /\ strip(pc.diff_input) = << >>
    /\ pc.topic_input = in_Array
    /\ \E a, b \in DOMAIN problems :
         /\ problems[a].topics = <<in_ARRAY>>
         /\ problems[b].topics = <<in_arrays>>
         /\ pc.candidates = {a}

\* C7: the session log is append-only: a step that completes a practice
\* session appends exactly one entry and leaves the earlier entries as they
\* were, and no other step changes the log.
C7_LogAppendOnly ==
    [][ IF SessionLogged
        THEN /\ Len(sessions') = Len(sessions) + 1
             /\ SubSeq(sessions', 1, Len(sessions)) = sessions
        ELSE sessions' = sessions ]_vars

C7_Witness ==
    /\ pc.at = "menu"
    /\ Len(sessions) = 2
    /\ sessions[1].problem_id = sessions[2].problem_id
    /\ sessions[1].status # sessions[2].status
    /\ problems[sessions[1].problem_id].attempts = 0

\* C8: every session of the log has minutes >= 0, a clock set back between
\* start and end included.
C8_MinutesNonNegative ==
    \A i \in 1..Len(sessions) : sessions[i].minutes >= 0

\* C9: logging a session for a slug leaves the set of catalog keys and every
\* other slug's record unchanged.
C9_OthersUntouched ==
    [][ SessionLogged =>
          /\ DOMAIN problems' = DOMAIN problems
          /\ \A t \in DOMAIN problems \ { pc.pid } : problems'[t] = problems[t] ]_vars

C9_Witness ==
    /\ pc.at = "menu"
    /\ Len(sessions) = 2
    /\ sessions[1].problem_id # sessions[2].problem_id
    /\ problems[sessions[1].problem_id].attempts = 1
    /\ problems[sessions[1].problem_id].last_practiced = Some(sessions[1].end)
    /\ problems[sessions[2].problem_id].attempts = 1

\* C10: attempts counts the sessions logged for the slug since its record was
\* created or overwritten: a logged session adds one to the attempts of its
\* problem, creating or overwriting a record leaves it with attempts 0 and no
\* status or dates while the log stays, any other step keeps the record; so
\* attempts never exceeds the number of log entries of that slug.
C10_AttemptsSinceUpsert ==
    /\ [](\A pid \in DOMAIN problems :
            problems[pid].attempts <= Cardinality(LoggedFor(pid)))
    /\ [][ \A pid \in DOMAIN problems' :
             IF Len(sessions') = Len(sessions) + 1
                /\ sessions'[Len(sessions')].problem_id = pid
             THEN /\ pid \in DOMAIN problems
                  /\ problems'[pid].attempts = problems[pid].attempts + 1
             ELSE IF pid \in DOMAIN problems /\ problems'[pid] = problems[pid]
             THEN TRUE
             ELSE /\ problems'[pid].attempts = 0
                  /\ problems'[pid].last_status = None
                  /\ problems'[pid].last_practiced = None
                  /\ problems'[pid].next_review = None
                  /\ sessions' = sessions ]_vars

C10_Witness ==
    /\ pc.at = "menu"
    /\ \E pid \in DOMAIN problems :
         /\ problems[pid].attempts = 1
         /\ Cardinality(LoggedFor(pid)) = 2

====
